---- MODULE Spec2Model ----
(***************************************************************************)
(* Model of the three example scripts of sonauto-api-examples:             *)
(*   rock_song_generator.py, singing_telegram.py, transition_generator.py  *)
(* Each run is one script invocation: the credential check, the Sonauto    *)
(* song / inpaint job (submit, poll, result or error detail, download),    *)
(* for the telegram script the Lemon Slice video job, and the exit code.   *)
(* The remote services are the environment: every HTTP call draws its      *)
(* response (2xx, non-2xx, network error) and its body from small sets.    *)
(***************************************************************************)
EXTENDS Integers, Sequences, FiniteSets, TLC

\* ------------------------------------------------------------------ bounds
\* most status queries issued for one job (the code's loops are unbounded)
MaxPolls == 3
\* most entries of the song_paths array of a result body
MaxPaths == 2

\* ------------------------------------------------------------ vocabulary
Scripts == {"rock", "telegram", "transition"}
Jobs    == {"song", "video"}

\* what the environment holds for a credential variable
EnvValues == {"absent", "placeholder", "real"}

\* outcome of one HTTP exchange: 2xx, non-2xx, or no response at all
Resps == {"ok", "non2xx", "neterr"}

\* Python's None, as it is displayed by print
None == "None"

\* ------------------------------------------------------- pure helpers

\* os.getenv(name, default) / os.getenv(name)
SonautoDefault(script) ==
    IF script = "transition" THEN None ELSE "your_sonauto_api_key"

LoadKey(env, default) ==
    CASE env = "absent"      -> default
      [] env = "placeholder" -> "your_sonauto_api_key"
      [] OTHER               -> "sk-real"

LoadLemonKey(env) ==
    CASE env = "absent"      -> "your_lemonslice_api_key"
      [] env = "placeholder" -> "your_lemonslice_api_key"
      [] OTHER               -> "ls-real"

\* the credential guard of each script: TRUE when the run is refused
\*   rock:       API_KEY == "your_sonauto_api_key"
\*   telegram:   check_api_keys()
\*   transition: not API_KEY
KeyBlocks(script, key, lemon) ==
    CASE script = "rock"       -> key = "your_sonauto_api_key"
      [] script = "telegram"   -> \/ key = "your_sonauto_api_key"
                                  \/ lemon = "your_lemonslice_api_key"
      [] OTHER                 -> key = None

\* a JSON object (Python dict) as a set of <<key, value>> pairs
DictHas(d, k) == \E p \in d : p[1] = k
DictGet(d, k, default) ==
    IF DictHas(d, k) THEN (CHOOSE p \in d : p[1] = k)[2] ELSE default

\* the status endpoint answers a bare JSON string: a quote, a word, a quote
Q == "\""
RECURSIVE LStrip(_)
LStrip(s) == IF s # <<>> /\ Head(s) = Q THEN LStrip(Tail(s)) ELSE s
RECURSIVE RStrip(_)
RStrip(s) ==
    IF s # <<>> /\ s[Len(s)] = Q THEN RStrip(SubSeq(s, 1, Len(s) - 1)) ELSE s
\* response.text.strip('"')
Strip(s) == RStrip(LStrip(s))

SUCCESS == <<"SUCCESS">>
FAILURE == <<"FAILURE">>
\* variant of IsTerminal that takes only FAILURE for terminal
IsTerminalFailureOnly(status) == status = FAILURE
\* status in ["SUCCESS", "FAILURE"]
IsTerminal(status) == status \in {SUCCESS, FAILURE}

\* the words the Sonauto status endpoint may send, and their wire form
StatusWords == {"PENDING", "GENERATING", "SUCCESS", "FAILURE"}
Wire(w) == <<Q, w, Q>>
\* the body of a non-2xx answer of the status endpoint: not a status at all
ErrorPage == <<"Internal", "Server", "Error">>

\* the status field of the Lemon Slice job
VideoWords == {"pending", "processing", "completed", "failed"}

\* error-detail bodies: the object may lack error_message, hold null, or text
ErrObjects == { {}, {<<"error_message", None>>},
                {<<"error_message", "bad prompt">>} }

\* placeholder of error_data.get("error_message", <placeholder>)
ErrPlaceholder(script) ==
    IF script = "telegram" THEN "Unknown error"
    ELSE "No detailed error message available"

\* the message displayed after a terminal failure whose body parsed
ErrorMessage(script, body) ==
    DictGet(body, "error_message", ErrPlaceholder(script))

\* artifact URLs a result body may list, and the arrays it may carry
Urls == {"u1", "u2"}
PathArrays == UNION { [1..n -> Urls] : n \in 0..MaxPaths }

\* variant of FirstPath that takes the last entry
LastPath(paths) == paths[Len(paths)]
\* result_data["song_paths"][0]
FirstPath(paths) == paths[1]

\* what a GET of an artifact URL delivers
Bytes(url, resp) ==
    [url |-> url, kind |-> IF resp = "ok" THEN "artifact" ELSE "errorpage"]
NoFile    == [url |-> "-", kind |-> "nofile"]
EmptyFile == [url |-> "-", kind |-> "empty"]

\* the process exit status each script's entry point produces
\*   rock:       if not song_file: sys.exit(1)
\*   telegram:   if not success: sys.exit(1)
\*   transition: main() returns, no sys.exit
\* an uncaught exception ends the interpreter with status 1
ExitCode(script, result) ==
    CASE result = "raised"         -> 1
      [] script = "transition"     -> 0
      [] result = "ok"             -> 0
      [] OTHER                     -> 1

\* file_size_mb > 35, with file_size_mb = bytes / (1024 * 1024)
SizeLimitMB == 35
\* variant of TooLarge that also rejects a file of exactly the limit
TooLargeOrEqual(bytes) == bytes >= SizeLimitMB * 1024 * 1024
TooLarge(bytes) == bytes > SizeLimitMB * 1024 * 1024
FileSizes == { SizeLimitMB * 1024 * 1024 - 1, SizeLimitMB * 1024 * 1024,
               SizeLimitMB * 1024 * 1024 + 1 }

\* what create_transition knows of the file it uploads: the size of the
\* concatenated file, the size of the reduced copy (-1: not made), and the
\* audio_path it encodes ("-": none)
NoUpload == [checked |-> FALSE, size |-> 0, reduced |-> -1, path |-> "-"]

\* ---------------------------------------- create_concatenated_audio, in ms
Min(a, b) == IF a <= b THEN a ELSE b

\* len(seg[:stop]) for a segment of len ms, as pydub slices: the stop is
\* clamped to the length, and a negative stop counts from the end
\* (the inputs below keep len + stop >= 0)
SliceEnd(len, stop) ==
    LET e == Min(stop, len) IN IF e < 0 THEN len + e ELSE e

\* song1_duration = min(song_duration * 1000, len(song1))
Song1Duration(song_duration, len1) == Min(song_duration * 1000, len1)

\* len(song1) after song1 = song1[:song1_duration - trim_from_end_ms]
TrimmedLen(song_duration, len1, trim_from_end_ms) ==
    SliceEnd(len1, Song1Duration(song_duration, len1) - trim_from_end_ms)

\* the 0.1 s padding of the boundaries, in ms
PaddingMs == 100
\* variant of SilenceStart that adds the padding
SilenceStartPlus(l1) == l1 + PaddingMs
\* silence_start = len(song1) / 1000 - 0.1
SilenceStart(l1) == l1 - PaddingMs
\* silence_end = (len(song1) + len(silence)) / 1000 + 0.1
SilenceEnd(l1, silence_duration) == l1 + silence_duration * 1000 + PaddingMs

\* command-line values and input lengths tried: --song-duration and
\* --silence in s, --trim-from-end and the length of song 1 in ms
SongDurations == {45}
Silences      == {5, 20}
TrimsFromEnd  == {0, 500, 30000, 50000}
Song1Lengths  == {60000, 30000}

NoAudio == [made |-> FALSE, song_duration |-> 0, silence |-> 0,
            trim_from_end_ms |-> 0, len1 |-> 0,
            silence_start |-> 0, silence_end |-> 0]

\* number of maximal runs of equal consecutive entries of a sequence
Runs(h) == Cardinality({ i \in 1..Len(h) : i = 1 \/ h[i] # h[i - 1] })

\* ------------------------------------------------------------------ state
VARIABLES
    script,      \* which script runs
    envKey,      \* SONAUTO_API_KEY in the environment
    envLemon,    \* LEMON_SLICE_API_KEY in the environment
    pc,          \* position of the run
    ret,         \* per job: what the job's function returned
    outcome,     \* what the script's top-level call produced
    exitCode,    \* process exit status, -1 while running
    trace,       \* external calls and sleeps made so far, with their answers
    hist,        \* per job: statuses the poll loop has read, in order
    prev_status, \* prev_status of the song poll loop
    status,      \* status the song poll loop ended with
    lines,       \* per job: progress lines printed by the poll loop
    file,        \* per job: the output file on disk
    saved,       \* per job: the "saved to" line was printed
    paths,       \* song_paths of the result body
    song_url,    \* song_url of the song job
    audio_url,   \* audio_url of the video job's payload
    video_url,   \* video_url of the completed video job
    errBody,     \* body of the error-detail answer
    audio,       \* transition: the joined audio and its inpainting boundaries
    upload,      \* transition: sizes measured and the file chosen for upload
    diag         \* diagnostics printed, in order

vars == << script, envKey, envLemon, pc, ret, outcome, exitCode, trace, hist,
           prev_status, status, lines, file, saved, paths, song_url,
           audio_url, video_url, errBody, audio, upload, diag >>

API_KEY == LoadKey(envKey, SonautoDefault(script))
LEMON_SLICE_API_KEY == LoadLemonKey(envLemon)

\* ------------------------------------------------- reading the call trace
\* positions of the calls of kind op made for job j
Calls(op, j) == { i \in DOMAIN trace : trace[i].op = op /\ trace[i].job = j }
Count(op, j) == Cardinality(Calls(op, j))
\* a transport-level failure: network error or non-2xx answer
Failed(i) == trace[i].resp \in {"non2xx", "neterr"}

Init ==
    /\ script \in Scripts
    /\ envKey \in EnvValues
    /\ envLemon \in (IF script = "telegram" THEN EnvValues ELSE {"absent"})
    /\ pc = "check"
    /\ ret = [j \in Jobs |-> "running"]
    /\ outcome = "running"
    /\ exitCode = -1
    /\ trace = <<>>
    /\ hist = [j \in Jobs |-> <<>>]
    /\ prev_status = <<None>>
    /\ status = <<None>>
    /\ lines = [j \in Jobs |-> 0]
    /\ file = [j \in Jobs |-> NoFile]
    /\ saved = [j \in Jobs |-> FALSE]
    /\ paths = <<>>
    /\ song_url = "-"
    /\ audio_url = "-"
    /\ video_url = "-"
    /\ errBody = [kind |-> "unfetched", fields |-> {}]
    /\ audio = NoAudio
    /\ upload = NoUpload
    /\ diag = <<>>

\* ---------------------------------------------------------------- actions
Bump(f, j) == [f EXCEPT ![j] = @ + 1]
Say(tag, text) == Append(diag, [tag |-> tag, text |-> text])

\* variant of Authorized that sends the token with every HTTP call
AuthorizedAlways(op) == op \notin {"sleep", "youtube"}
\* whether the call carries the bearer token: the API calls pass
\* headers with Authorization, the artifact downloads are bare requests.get
Authorized(op) == op \in {"submit", "status", "errfetch", "result"}

\* one external call: its kind, job, answer, whether the body was usable,
\* the status text received (status calls) or the sections sent (submit),
\* whether a bearer token went with it
Call(op, j, resp, usable, sent, auth) ==
    Append(trace, [op |-> op, job |-> j, resp |-> resp, usable |-> usable,
                   sent |-> sent, auth |-> auth])

\* the song job's function returns r ("ok" or "None") to its caller
SongReturns(r) ==
    /\ ret' = [ret EXCEPT !["song"] = r]
    /\ exitCode' = exitCode
    /\ IF r = "ok" /\ script = "telegram"
         THEN pc' = "vsubmit" /\ outcome' = outcome
         ELSE pc' = "main" /\ outcome' = (IF r = "ok" THEN "ok" ELSE "falsy")

\* create_singing_video returns r to create_singing_telegram
VideoReturns(r) ==
    /\ ret' = [ret EXCEPT !["video"] = r]
    /\ exitCode' = exitCode
    /\ pc' = "main"
    /\ outcome' = (IF r = "ok" THEN "ok" ELSE "falsy")

\* an exception no handler catches: traceback, interpreter exits
Raises(j) ==
    /\ ret' = [ret EXCEPT ![j] = "raised"]
    /\ outcome' = "raised"
    /\ pc' = "done"
    /\ exitCode' = ExitCode(script, "raised")

\* the credential guard at the start of each script
CheckKeys ==
    /\ pc = "check"
    /\ IF KeyBlocks(script, API_KEY, LEMON_SLICE_API_KEY)
         THEN /\ diag' = Say("config", "Please set your API key")
              /\ pc' = "main"
              /\ outcome' = "falsy"
         ELSE /\ diag' = diag
              /\ pc' = (IF script = "transition" THEN "youtube" ELSE "submit")
              /\ outcome' = outcome
    /\ UNCHANGED << script, envKey, envLemon, audio, upload, ret, exitCode, trace, hist,
                    prev_status, status, lines, file, saved, paths, song_url,
                    audio_url, video_url, errBody >>

\* transition: download_youtube_audio, called twice, exceptions uncaught
DownloadYoutube ==
    /\ pc = "youtube"
    /\ \E ok \in BOOLEAN :
         /\ trace' = Call("youtube", "song", IF ok THEN "ok" ELSE "neterr",
                          ok, <<>>, Authorized("youtube"))
         /\ IF ok
              THEN /\ pc' = (IF Count("youtube", "song") = 1 THEN "concat"
                             ELSE "youtube")
                   /\ UNCHANGED << ret, outcome, exitCode >>
              ELSE Raises("song")
    /\ UNCHANGED << script, envKey, envLemon, audio, upload, hist, prev_status, status,
                    lines, file, saved, paths, song_url, audio_url, video_url,
                    errBody, diag >>

\* transition: create_concatenated_audio trims song 1, appends the silence
\* and song 2, and returns the boundaries of the silent section (song 2 and
\* --trim-to-start do not enter the boundaries)
CreateConcatenatedAudio ==
    /\ pc = "concat"
    /\ \E d \in SongDurations, sil \in Silences, trim \in TrimsFromEnd,
          len1 \in Song1Lengths :
         LET l1 == TrimmedLen(d, len1, trim) IN
         audio' = [made |-> TRUE, song_duration |-> d, silence |-> sil,
                   trim_from_end_ms |-> trim, len1 |-> len1,
                   silence_start |-> SilenceStart(l1),
                   silence_end |-> SilenceEnd(l1, sil)]
    /\ pc' = "size"
    /\ UNCHANGED << script, envKey, envLemon, upload, ret, outcome, exitCode,
                    trace, hist, prev_status, status, lines, file, saved,
                    paths, song_url, audio_url, video_url, errBody, diag >>

\* transition: the size guard at the head of create_transition
CheckFileSize ==
    /\ pc = "size"
    /\ \E size \in FileSizes :
         IF ~TooLarge(size)
           THEN /\ upload' = [checked |-> TRUE, size |-> size,
                              reduced |-> -1, path |-> "concat"]
                /\ diag' = diag
                /\ pc' = "submit"
                /\ UNCHANGED << ret, outcome, exitCode >>
           ELSE \E reduced \in FileSizes :
                  IF TooLarge(reduced)
                    THEN /\ upload' = [checked |-> TRUE, size |-> size,
                                       reduced |-> reduced, path |-> "-"]
                         /\ diag' = Say("size", "file size is too large")
                         /\ SongReturns("None")
                    ELSE /\ upload' = [checked |-> TRUE, size |-> size,
                                       reduced |-> reduced,
                                       path |-> "reduced"]
                         /\ diag' = diag
                         /\ pc' = "submit"
                         /\ UNCHANGED << ret, outcome, exitCode >>
    /\ UNCHANGED << script, envKey, envLemon, audio, trace, hist,
                    prev_status, status, lines, file, saved, paths, song_url,
                    audio_url, video_url, errBody >>

\* "sections": [[section_start, section_end]] of the inpaint payload; the
\* payloads of the other two scripts carry no sections
Sections ==
    IF script = "transition"
      THEN <<audio.silence_start, audio.silence_end>>
      ELSE <<>>

\* POST generations (rock, telegram) / generations/inpaint (transition)
Submit ==
    /\ pc = "submit"
    /\ \E r \in Resps :
         /\ trace' = Call("submit", "song", r, r = "ok", Sections,
                          Authorized("submit"))
         /\ IF r = "ok"
              THEN /\ pc' = "poll"
                   /\ UNCHANGED << ret, outcome, exitCode, diag >>
              ELSE /\ diag' = Say("transport", "submit")
                   /\ SongReturns("None")
    /\ UNCHANGED << script, envKey, envLemon, audio, upload, hist, prev_status, status,
                    lines, file, saved, paths, song_url, audio_url, video_url,
                    errBody >>

\* where the song workflow goes once the poll loop has read status st
AfterStatus(st) ==
    CASE st = FAILURE -> "errfetch"
      [] st = SUCCESS -> "result"
      [] OTHER        -> "sleep"

\* the body of the song poll loop once a status text st has been read
ObserveStatus(st) ==
    /\ hist' = [hist EXCEPT !["song"] = Append(@, st)]
    /\ lines' = IF st # prev_status THEN Bump(lines, "song") ELSE lines
    /\ prev_status' = st
    /\ status' = IF IsTerminal(st) THEN st ELSE status
    /\ pc' = IF IsTerminal(st) THEN AfterStatus(st) ELSE "sleep"
    /\ UNCHANGED << ret, outcome, exitCode, diag >>

\* one GET generations/status/{task_id} of the song poll loop
PollStatus ==
    /\ pc = "poll"
    /\ Count("status", "song") < MaxPolls
    /\ \E r \in Resps, w \in StatusWords :
         LET body == IF r = "ok" THEN Wire(w) ELSE ErrorPage IN
         /\ trace' = Call("status", "song", r, r = "ok",
                          IF r = "neterr" THEN <<>> ELSE body, Authorized("status"))
         /\ IF script = "telegram"
              THEN \* inline loop: no raise_for_status on the status answer
                   IF r = "neterr"
                     THEN /\ diag' = Say("exception", "status")
                          /\ SongReturns("None")
                          /\ UNCHANGED << hist, lines, prev_status, status >>
                     ELSE ObserveStatus(Strip(body))
              ELSE \* poll_status over api_request
                   IF r # "ok"
                     THEN /\ diag' = Say("transport", "status")
                          /\ status' = FAILURE
                          /\ pc' = AfterStatus(FAILURE)
                          /\ UNCHANGED << ret, outcome, exitCode, hist, lines,
                                          prev_status >>
                     ELSE ObserveStatus(Strip(body))
    /\ UNCHANGED << script, envKey, envLemon, audio, upload, file, saved, paths, song_url,
                    audio_url, video_url, errBody >>

\* time.sleep(5) at the foot of the song poll loop
Sleep ==
    /\ pc = "sleep"
    /\ trace' = Call("sleep", "song", "-", TRUE, <<>>, Authorized("sleep"))
    /\ pc' = "poll"
    /\ UNCHANGED << script, envKey, envLemon, audio, upload, ret, outcome, exitCode, hist,
                    prev_status, status, lines, file, saved, paths, song_url,
                    audio_url, video_url, errBody, diag >>

\* bodies of GET generations/{task_id} after SUCCESS: the object may lack
\* song_paths, or carry an array of 0..MaxPaths URLs
ResultObjects == { {} } \cup { {<<"song_paths", p>>} : p \in PathArrays }

\* result_data["song_paths"][0] raises KeyError / IndexError when there is
\* no first entry
HasFirstPath(body) ==
    DictHas(body, "song_paths") /\ Len(DictGet(body, "song_paths", <<>>)) >= 1

\* GET generations/{task_id} after a FAILURE status: the error detail
FetchErrorDetails ==
    /\ pc = "errfetch"
    /\ \E r \in Resps, parses \in BOOLEAN, body \in ErrObjects :
         /\ trace' = Call("errfetch", "song", r, r # "neterr" /\ parses,
                          <<>>, Authorized("errfetch"))
         /\ IF script = "telegram"
              THEN \* no raise_for_status; any exception is caught
                   IF r = "neterr" \/ ~parses
                     THEN /\ errBody' = [kind |-> (IF r = "neterr"
                                                     THEN "unfetched"
                                                     ELSE "unparsable"),
                                         fields |-> {}]
                          /\ diag' = Say("exception", "error detail")
                          /\ SongReturns("None")
                     ELSE /\ errBody' = [kind |-> "object", fields |-> body]
                          /\ diag' = Say("failed", ErrorMessage(script, body))
                          /\ SongReturns("None")
              ELSE \* api_request, then .json() outside any try
                   IF r # "ok"
                     THEN /\ errBody' = errBody
                          /\ diag' = Say("failed",
                                         "couldn't retrieve error details")
                          /\ SongReturns("None")
                     ELSE IF ~parses
                       THEN /\ errBody' = [kind |-> "unparsable",
                                           fields |-> {}]
                            /\ diag' = diag
                            /\ Raises("song")
                       ELSE /\ errBody' = [kind |-> "object", fields |-> body]
                            /\ diag' = Say("failed",
                                           ErrorMessage(script, body))
                            /\ SongReturns("None")
    /\ UNCHANGED << script, envKey, envLemon, audio, upload, hist, prev_status, status,
                    lines, file, saved, paths, song_url, audio_url,
                    video_url >>

\* GET generations/{task_id} after SUCCESS: the result, and song_url
FetchResult ==
    /\ pc = "result"
    /\ \E r \in Resps, parses \in BOOLEAN, body \in ResultObjects :
         LET usable == r # "neterr" /\ parses /\ HasFirstPath(body)
             found  == DictGet(body, "song_paths", <<>>)
         IN
         /\ trace' = Call("result", "song", r, usable, <<>>, Authorized("result"))
         /\ IF script = "telegram"
              THEN \* requests.get(...).json(), every exception caught
                   IF usable
                     THEN /\ paths' = found
                          /\ song_url' = FirstPath(found)
                          /\ pc' = "download"
                          /\ UNCHANGED << ret, outcome, exitCode, diag >>
                     ELSE /\ diag' = Say("exception", "result")
                          /\ SongReturns("None")
                          /\ UNCHANGED << paths, song_url >>
              ELSE \* api_request, then .json() and indexing outside any try
                   IF r # "ok"
                     THEN /\ diag' = Say("transport", "result")
                          /\ SongReturns("None")
                          /\ UNCHANGED << paths, song_url >>
                     ELSE IF usable
                       THEN /\ paths' = found
                            /\ song_url' = FirstPath(found)
                            /\ pc' = "download"
                            /\ UNCHANGED << ret, outcome, exitCode, diag >>
                       ELSE /\ Raises("song")
                            /\ UNCHANGED << paths, song_url, diag >>
    /\ UNCHANGED << script, envKey, envLemon, audio, upload, hist, prev_status, status,
                    lines, file, saved, audio_url, video_url, errBody >>

\* requests.get(song_url) and the write of the song / transition file
DownloadSong ==
    /\ pc = "download"
    /\ \E r \in Resps :
         /\ trace' = Call("download", "song", r, r = "ok", <<>>, Authorized("download"))
         /\ IF script = "telegram"
              THEN \* the file is opened first; no raise_for_status
                   IF r = "neterr"
                     THEN /\ file' = [file EXCEPT !["song"] = EmptyFile]
                          /\ saved' = saved
                          /\ diag' = Say("exception", "download")
                          /\ SongReturns("None")
                     ELSE /\ file' = [file EXCEPT !["song"] =
                                                    Bytes(song_url, r)]
                          /\ saved' = [saved EXCEPT !["song"] = TRUE]
                          /\ diag' = diag
                          /\ SongReturns("ok")
              ELSE \* raise_for_status, then open and write
                   IF r # "ok"
                     THEN /\ UNCHANGED << file, saved >>
                          /\ diag' = Say("transport", "download")
                          /\ SongReturns("None")
                     ELSE /\ file' = [file EXCEPT !["song"] =
                                                    Bytes(song_url, r)]
                          /\ saved' = [saved EXCEPT !["song"] = TRUE]
                          /\ diag' = diag
                          /\ SongReturns("ok")
    /\ UNCHANGED << script, envKey, envLemon, audio, upload, hist, prev_status, status,
                    lines, paths, song_url, audio_url, video_url, errBody >>

\* bodies of GET {LEMON_SLICE_BASE_URL}/generations/{job_id}
VideoObjects ==
    { {} } \cup { {<<"status", w>>} : w \in VideoWords }
           \cup { {<<"status", "completed">>, <<"video_url", "v1">>} }

\* POST {LEMON_SLICE_BASE_URL}/generate with audio_url = song_data["song_url"]
SubmitVideo ==
    /\ pc = "vsubmit"
    /\ audio_url' = song_url
    /\ \E r \in Resps :
         /\ trace' = Call("submit", "video", r, r = "ok", <<>>, Authorized("submit"))
         /\ IF r = "ok"
              THEN /\ pc' = "vpoll"
                   /\ UNCHANGED << ret, outcome, exitCode, diag >>
              ELSE /\ diag' = Say("exception", "video submit")
                   /\ VideoReturns("None")
    /\ UNCHANGED << script, envKey, envLemon, audio, upload, hist, prev_status, status,
                    lines, file, saved, paths, song_url, video_url, errBody >>

\* variant of AfterVideoStatus that downloads on every status but pending
AfterVideoStatusLax(st) == IF st = "pending" THEN "vsleep" ELSE "vdownload"
\* where create_singing_video goes on status st: the loop condition
\* `status == "pending"`, then `if status == "completed"`, else failure
AfterVideoStatus(st) ==
    CASE st = "pending"   -> "vsleep"
      [] st = "completed" -> "vdownload"
      [] OTHER            -> "main"

\* one turn of `while status == "pending"` of create_singing_video, and the
\* branch on the status once the loop is left
PollVideo ==
    /\ pc = "vpoll"
    /\ Count("status", "video") < MaxPolls
    /\ \E r \in Resps, parses \in BOOLEAN, body \in VideoObjects :
         LET st == DictGet(body, "status", None) IN
         /\ trace' = Call("status", "video", r, r # "neterr" /\ parses,
                          IF r # "neterr" /\ parses THEN <<st>> ELSE <<>>, Authorized("status"))
         /\ IF r = "neterr" \/ ~parses
              THEN /\ diag' = Say("exception", "video status")
                   /\ VideoReturns("None")
                   /\ UNCHANGED << hist, lines, video_url >>
              ELSE /\ hist' = [hist EXCEPT !["video"] = Append(@, st)]
                   /\ CASE AfterVideoStatus(st) = "vsleep" ->
                             /\ lines' = Bump(lines, "video")
                             /\ pc' = "vsleep"
                             /\ UNCHANGED << ret, outcome, exitCode, diag,
                                             video_url >>
                        [] AfterVideoStatus(st) = "vdownload" ->
                             /\ video_url' = DictGet(body, "video_url", None)
                             /\ pc' = "vdownload"
                             /\ UNCHANGED << ret, outcome, exitCode, diag,
                                             lines >>
                        [] OTHER ->
                             /\ diag' = Say("video failed", st)
                             /\ VideoReturns("None")
                             /\ UNCHANGED << lines, video_url >>
    /\ UNCHANGED << script, envKey, envLemon, audio, upload, prev_status, status, file,
                    saved, paths, song_url, audio_url, errBody >>

\* time.sleep(5.0) inside the pending branch of the video loop
SleepVideo ==
    /\ pc = "vsleep"
    /\ trace' = Call("sleep", "video", "-", TRUE, <<>>, Authorized("sleep"))
    /\ pc' = "vpoll"
    /\ UNCHANGED << script, envKey, envLemon, audio, upload, ret, outcome, exitCode, hist,
                    prev_status, status, lines, file, saved, paths, song_url,
                    audio_url, video_url, errBody, diag >>

\* open(video_filename), requests.get(video_url), write
DownloadVideo ==
    /\ pc = "vdownload"
    /\ IF video_url = None
         THEN \* requests.get(None) raises before anything is sent
              /\ file' = [file EXCEPT !["video"] = EmptyFile]
              /\ diag' = Say("exception", "video download")
              /\ VideoReturns("None")
              /\ UNCHANGED << trace, saved >>
         ELSE \E r \in Resps :
                /\ trace' = Call("download", "video", r, r = "ok", <<>>, Authorized("download"))
                /\ IF r = "neterr"
                     THEN /\ file' = [file EXCEPT !["video"] = EmptyFile]
                          /\ saved' = saved
                          /\ diag' = Say("exception", "video download")
                          /\ VideoReturns("None")
                     ELSE /\ file' = [file EXCEPT !["video"] =
                                                    Bytes(video_url, r)]
                          /\ saved' = [saved EXCEPT !["video"] = TRUE]
                          /\ diag' = diag
                          /\ VideoReturns("ok")
    /\ UNCHANGED << script, envKey, envLemon, audio, upload, hist, prev_status, status,
                    lines, paths, song_url, audio_url, video_url, errBody >>

\* the tail of the entry point: the exit status of the process (the optional
\* os.rename of transition_generator.py's main only moves the written file)
MainExit ==
    /\ pc = "main"
    /\ exitCode' = ExitCode(script, outcome)
    /\ pc' = "done"
    /\ UNCHANGED << script, envKey, envLemon, audio, upload, ret, outcome, trace, hist,
                    prev_status, status, lines, file, saved, paths, song_url,
                    audio_url, video_url, errBody, diag >>

Next ==
    \/ CheckKeys
    \/ DownloadYoutube
    \/ CreateConcatenatedAudio
    \/ CheckFileSize
    \/ Submit
    \/ PollStatus
    \/ Sleep
    \/ FetchErrorDetails
    \/ FetchResult
    \/ DownloadSong
    \/ SubmitVideo
    \/ PollVideo
    \/ SleepVideo
    \/ DownloadVideo
    \/ MainExit

Spec == Init /\ [][Next]_vars

TypeOK ==
    /\ script \in Scripts
    /\ pc \in {"check", "youtube", "concat", "size", "submit", "poll", "sleep",
               "errfetch", "result", "download", "vsubmit", "vpoll", "vsleep",
               "vdownload", "main", "done"}
    /\ exitCode \in {-1, 0, 1}
    /\ outcome \in {"running", "ok", "falsy", "raised"}
    /\ \A j \in Jobs : ret[j] \in {"running", "ok", "None", "raised"}

\* ------------------------------------------------------------ properties
LastOf(S) == CHOOSE i \in S : \A k \in S : k <= i
Last(h) == h[Len(h)]
Printed(tag) == { diag[i].text : i \in { k \in DOMAIN diag : diag[k].tag = tag } }

\* the poll loop of job j is still running
LoopActive(j) ==
    IF j = "song" THEN pc \in {"poll", "sleep"} ELSE pc \in {"vpoll", "vsleep"}

\* the last status query of job j was answered 2xx with a readable status
\* that is neither success nor failure
SawNonTerminal(j) ==
    /\ Calls("status", j) # {}
    /\ trace[LastOf(Calls("status", j))].resp = "ok"
    /\ trace[LastOf(Calls("status", j))].usable
    /\ hist[j] # <<>>
    /\ IF j = "song"
         THEN Last(hist[j]) \notin {SUCCESS, FAILURE}
         ELSE Last(hist[j]) \in VideoWords \ {"completed", "failed"}

\* C1: for every job, a status that is neither success nor failure leaves
\* the poll loop active (the loop exits on a status only when that status is
\* terminal).
C1_ExitOnlyOnTerminalStatus ==
    \A j \in Jobs : SawNonTerminal(j) => LoopActive(j)

\* C2: once a submit or status call of a job has failed in transport
\* (network error or non-2xx), no later submit or status call is issued for
\* that job.
C2_NoPollAfterTransportFailure ==
    \A i \in DOMAIN trace, k \in DOMAIN trace :
        ( /\ i < k
          /\ trace[i].op \in {"submit", "status"}
          /\ Failed(i)
          /\ trace[k].job = trace[i].job )
        => trace[k].op \notin {"submit", "status"}

\* a credential the script needs is absent or still the placeholder
CredentialMissing ==
    \/ envKey \in {"absent", "placeholder"}
    \/ script = "telegram" /\ envLemon \in {"absent", "placeholder"}

\* C3: with the credential absent or equal to the placeholder, the run makes
\* no external call at all (no HTTP request, no YouTube download) and ends
\* having printed the configuration diagnostic.
C3_NoCallWithoutCredential ==
    CredentialMissing =>
        /\ trace = <<>>
        /\ (pc \in {"main", "done"} => Printed("config") # {})

\* C4: when the process has ended, its exit status is zero exactly when the
\* run succeeded, and non-zero after every failure.
C4_ExitCodeReflectsOutcome ==
    pc = "done" => (exitCode = 0 <=> outcome = "ok")

\* the song poll loop read the terminal status FAILURE
ObservedFailure == hist["song"] # <<>> /\ Last(hist["song"]) = FAILURE

\* C5: after a terminal failure the failure path never raises, never shows
\* None as the message, and shows the placeholder when the body has no
\* error_message.
C5_FailureMessage ==
    ObservedFailure =>
        /\ Calls("errfetch", "song") # {} => ret["song"] # "raised"
        /\ None \notin Printed("failed")
        /\ ( /\ errBody.kind = "object"
             /\ ~DictHas(errBody.fields, "error_message") )
             => Printed("failed") = {ErrPlaceholder(script)}

\* the answer the artifact download of job j got, "-" before the download
DownloadResp(j) ==
    IF Calls("download", j) = {} THEN "-"
    ELSE trace[LastOf(Calls("download", j))].resp

\* C6: whenever the artifact URL answers non-2xx, the download fails: no
\* artifact file is written, no "saved" line is printed and the job's
\* function reports failure.
C6_Non2xxDownloadFails ==
    \A j \in Jobs :
        DownloadResp(j) = "non2xx" =>
            /\ file[j] = NoFile
            /\ ~saved[j]
            /\ ret[j] = "None"

\* C7: in every poll loop the number of status lines printed equals the
\* number of maximal runs of equal consecutive statuses read so far.
C7_OneLinePerStatusRun ==
    \A j \in Jobs : lines[j] = Runs(hist[j])

\* C8: a run whose job ended in terminal failure writes no artifact file,
\* exits non-zero, and its diagnostic carries the remote error_message when
\* the error detail returned one.
C8_TerminalFailureRun ==
    (pc = "done" /\ ObservedFailure) =>
        /\ file["song"] = NoFile
        /\ exitCode # 0
        /\ ( /\ errBody.kind = "object"
             /\ DictGet(errBody.fields, "error_message", None) # None )
             => DictGet(errBody.fields, "error_message", None)
                    \in Printed("failed")

\* wire forms of the two terminal statuses
TerminalWires == {Wire("SUCCESS"), Wire("FAILURE")}
\* status queries of the song job answered with a terminal status
TerminalAnswers ==
    { i \in Calls("status", "song") : trace[i].sent \in TerminalWires }
FirstOf(S) == CHOOSE i \in S : \A k \in S : i <= k

\* every call made so far for the song job succeeded with a usable body
AllSongCallsOk ==
    \A i \in DOMAIN trace :
        (trace[i].job = "song" /\ trace[i].op # "sleep")
            => trace[i].resp = "ok" /\ trace[i].usable

\* the status endpoint has answered n >= 0 non-terminal statuses and then
\* SUCCESS, every call having succeeded
PendingThenSuccess ==
    /\ AllSongCallsOk
    /\ TerminalAnswers # {}
    /\ trace[FirstOf(TerminalAnswers)].sent = Wire("SUCCESS")

\* the number n of non-terminal answers that preceded the terminal one
PendingCount ==
    Cardinality({ i \in Calls("status", "song") : i < FirstOf(TerminalAnswers) })

\* C9: for n pending answers followed by SUCCESS, all calls succeeding, the
\* song workflow has issued one submit and n+1 status queries, has left the
\* poll loop, makes no error-detail request, and ends having made exactly
\* one result fetch and one download, written the file and reported success.
C9_PendingThenSuccessRun ==
    PendingThenSuccess =>
        /\ Count("submit", "song") = 1
        /\ Count("status", "song") = PendingCount + 1
        /\ Count("sleep", "song") = PendingCount
        /\ Count("errfetch", "song") = 0
        /\ ~LoopActive("song")
        /\ Count("result", "song") <= 1
        /\ Count("download", "song") <= Count("result", "song")
        /\ pc # "result" => Count("result", "song") = 1
        /\ ret["song"] # "running" =>
               /\ Count("download", "song") = 1
               /\ file["song"].kind = "artifact"
               /\ saved["song"]
               /\ ret["song"] = "ok"

\* C9 witness: two pending answers, then SUCCESS, and the rock song saved
C9_Witness ==
    /\ script = "rock"
    /\ PendingThenSuccess
    /\ PendingCount = 2
    /\ Count("status", "song") = 3
    /\ ret["song"] = "ok"
    /\ file["song"].kind = "artifact"
    /\ pc = "done"
    /\ exitCode = 0

\* C10: with a song_paths array of one or more entries, song_url is its
\* first entry, the bytes in the song file are the bytes the download of
\* that first entry delivered, and the video job's audio_url is that entry.
C10_FirstPathSaved ==
    Len(paths) >= 1 =>
        /\ song_url = paths[1]
        /\ file["song"].kind \in {"artifact", "errorpage"}
               => file["song"] = Bytes(paths[1], DownloadResp("song"))
        /\ Count("submit", "video") > 0 => audio_url = paths[1]

\* C10 witness: two different paths, the song saved, the video job submitted
C10_Witness ==
    /\ Len(paths) = 2
    /\ paths[1] # paths[2]
    /\ file["song"] = Bytes(paths[1], "ok")
    /\ Count("submit", "video") = 1
    /\ audio_url = paths[1]

\* C11: the video job is submitted only after the song job has answered
\* SUCCESS and the song artifact has been fetched (its download answered
\* 2xx); no call of the song job comes after the video submit; and a song
\* step that failed is never followed by a video submit.
C11_VideoOnlyAfterSong ==
    /\ Calls("submit", "video") # {} =>
         LET v == FirstOf(Calls("submit", "video")) IN
         /\ \E i \in Calls("status", "song") :
                i < v /\ trace[i].sent = Wire("SUCCESS")
         /\ \E i \in Calls("download", "song") :
                i < v /\ trace[i].resp = "ok"
         /\ \A i \in DOMAIN trace : trace[i].job = "song" => i < v
    /\ ret["song"] \in {"None", "raised"} => Calls("submit", "video") = {}

\* the video step failed: its function reported failure, or the download of
\* the video did not answer 2xx
VideoStepFailed ==
    \/ ret["video"] \in {"None", "raised"}
    \/ DownloadResp("video") \in {"non2xx", "neterr"}

\* C12: when the video step fails after the song step succeeded, the song
\* file holds what the song download wrote and the run is reported as
\* failed.
C12_SongFileKeptOnVideoFailure ==
    (pc = "done" /\ ret["song"] = "ok" /\ VideoStepFailed) =>
        /\ file["song"] = Bytes(song_url, DownloadResp("song"))
        /\ outcome = "falsy"
        /\ exitCode # 0

\* the last status query of the song job, if any
LastSongPoll == LastOf(Calls("status", "song"))

\* C13: in the song poll loops a non-terminal answer is followed by another
\* poll however many came before (the loop is still active), and a terminal
\* answer or a transport error on a status query ends the loop.
C13_LoopRunsUntilTerminalOrTransportError ==
    Calls("status", "song") # {} =>
        /\ SawNonTerminal("song") => LoopActive("song")
        /\ ( \/ trace[LastSongPoll].sent \in TerminalWires
             \/ Failed(LastSongPoll) ) => ~LoopActive("song")

\* the length L1 of the trimmed first clip as the claim computes it, in ms:
\* min(song_duration, length of song 1) - trim_from_end
ClaimedL1 ==
    Min(audio.song_duration * 1000, audio.len1) - audio.trim_from_end_ms

ResultEndpointCalls == Calls("errfetch", "song") \cup Calls("result", "song")

\* a status query before position k read the terminal status wire
TerminalSeenBefore(k, wire) ==
    \E i \in Calls("status", "song") :
        i < k /\ trace[i].resp = "ok" /\ trace[i].sent = wire

\* C15: the calls of the song job come in the order submit, status polls,
\* result or error-detail fetch, download: the result endpoint is queried
\* only after a status query read SUCCESS or FAILURE, and the artifact is
\* downloaded only after a result fetch that followed SUCCESS.
C15_CallOrder ==
    /\ \A k \in Calls("status", "song") :
           \E i \in Calls("submit", "song") : i < k
    /\ \A k \in ResultEndpointCalls :
           \E w \in TerminalWires : TerminalSeenBefore(k, w)
    /\ \A k \in Calls("download", "song") :
           \E i \in Calls("result", "song") :
               i < k /\ TerminalSeenBefore(i, Wire("SUCCESS"))

\* the kinds of call that are HTTP requests
HttpOps == {"submit", "status", "errfetch", "result", "download"}

\* C16: after a status query failed in transport, the run issues no
\* further HTTP request of any kind.
C16_NoRequestAfterPollTransportFailure ==
    \A i \in DOMAIN trace, k \in DOMAIN trace :
        (i < k /\ trace[i].op = "status" /\ Failed(i))
            => trace[k].op \notin HttpOps

\* C17: no artifact download carries the bearer token.
C17_DownloadsUnauthenticated ==
    \A i \in DOMAIN trace : trace[i].op = "download" => ~trace[i].auth

\* C17 witness: a song and a video were downloaded after authorized API
\* calls
C17_Witness ==
    /\ Calls("download", "song") # {}
    /\ Calls("download", "video") # {}
    /\ \E i \in Calls("submit", "song") : trace[i].auth
    /\ \A i \in DOMAIN trace : trace[i].op = "download" => ~trace[i].auth

\* the last status the video loop read
VideoStatus == Last(hist["video"])
\* the video file holds downloaded bytes
VideoWritten == file["video"].kind \in {"artifact", "errorpage"}

\* C18 as stated: a completed answer (carrying video_url) leads to exactly
\* one download of video_url and one written video file; any status other
\* than pending or completed leads to a reported failure with no video
\* download and no video file.
C18_CompletedAlwaysWritesVideo ==
    (pc = "done" /\ hist["video"] # <<>>) =>
        /\ (VideoStatus = "completed" /\ video_url # None) =>
               /\ Count("download", "video") = 1
               /\ VideoWritten
               /\ file["video"].url = video_url
        /\ VideoStatus \notin {"pending", "completed"} =>
               /\ ret["video"] = "None"
               /\ exitCode # 0
               /\ Count("download", "video") = 0
               /\ file["video"] = NoFile

\* C18 amended: a completed answer ends polling; when it carries video_url
\* exactly one download of video_url is made, and when that download gets
\* an HTTP answer its body is written to the video file, while on a network
\* error nothing is written and failure is reported; any status other than
\* pending or completed leads to a reported failure with no video download
\* and no video file.
C18_CompletedDownloadsVideoOnce ==
    hist["video"] # <<>> =>
        /\ VideoStatus = "completed" =>
               /\ ~LoopActive("video")
               /\ Count("download", "video") <= 1
               /\ VideoWritten => file["video"].url = video_url
        /\ (pc = "done" /\ VideoStatus = "completed" /\ video_url # None) =>
               /\ Count("download", "video") = 1
               /\ DownloadResp("video") # "neterr" =>
                      /\ file["video"] =
                             Bytes(video_url, DownloadResp("video"))
                      /\ saved["video"]
               /\ DownloadResp("video") = "neterr" =>
                      /\ ~VideoWritten
                      /\ ret["video"] = "None"
                      /\ exitCode # 0
        /\ VideoStatus \notin {"pending", "completed"} =>
               /\ ~LoopActive("video")
               /\ ret["video"] = "None"
               /\ outcome = "falsy"
               /\ pc = "done" => exitCode # 0
               /\ Count("download", "video") = 0
               /\ file["video"] = NoFile

\* C18 witness: pending, then completed, the video downloaded and written
C18_Witness ==
    /\ pc = "done"
    /\ hist["video"] = <<"pending", "completed">>
    /\ Count("download", "video") = 1
    /\ file["video"] = Bytes(video_url, "ok")
    /\ ret["video"] = "ok"

\* status query i observed a terminal status: SUCCESS or FAILURE for the
\* song job, anything but pending for the video job
ObservedTerminal(i) ==
    /\ trace[i].usable
    /\ IF trace[i].job = "song"
         THEN trace[i].sent \in TerminalWires
         ELSE trace[i].sent # <<"pending">>
\* the sleeps of job j strictly between positions i and k of the run
SleepsBetween(j, i, k) == { n \in Calls("sleep", j) : i < n /\ n < k }

\* C19: exactly one sleep separates two consecutive status queries of the
\* same job, and no sleep of that job follows a status query that observed
\* a terminal status or failed in transport.
C19_OneSleepBetweenPolls ==
    \A j \in Jobs :
        /\ \A i \in Calls("status", j), k \in Calls("status", j) :
               (i < k /\ \A n \in Calls("status", j) : ~(i < n /\ n < k))
                   => Cardinality(SleepsBetween(j, i, k)) = 1
        /\ \A i \in Calls("status", j) :
               (ObservedTerminal(i) \/ Failed(i))
                   => \A n \in Calls("sleep", j) : n < i

\* files on disk: anything but the absence of the file
OnDisk(j) == file[j] # NoFile

\* C20: an artifact file exists on disk only if a download of that artifact
\* completed successfully; a failed or refused download leaves no created
\* or empty output file.
C20_FileOnlyAfterSuccessfulDownload ==
    \A j \in Jobs : OnDisk(j) => DownloadResp(j) = "ok"

\* the error-detail request made after a terminal failure itself failed:
\* transport error, or a body that does not parse
ErrorDetailFailed ==
    /\ ObservedFailure
    /\ \E i \in Calls("errfetch", "song") : Failed(i) \/ ~trace[i].usable

\* C21: when the job ended in terminal failure and the error-detail request
\* failed too, the run makes no result fetch and no download, writes no
\* file, starts no video job, and ends reported as failed (non-zero exit),
\* never as a success.
C21_FailedErrorDetailStillFails ==
    ErrorDetailFailed =>
        /\ Calls("result", "song") = {}
        /\ \A j \in Jobs : Calls("download", j) = {} /\ file[j] = NoFile
        /\ Calls("submit", "video") = {}
        /\ ret["song"] \in {"None", "raised"}
        /\ outcome # "ok"
        /\ pc = "done" => exitCode # 0

\* a file of this many bytes is larger than the 35 MB threshold
AboveThreshold(bytes) == bytes > SizeLimitMB * 1024 * 1024
\* the file was measured and is still above the threshold after reduction
StillTooLarge ==
    /\ upload.checked
    /\ AboveThreshold(upload.size)
    /\ AboveThreshold(upload.reduced)
\* the file was measured and is at or below the threshold, as concatenated
\* or as reduced
FitsThreshold ==
    /\ upload.checked
    /\ \/ ~AboveThreshold(upload.size)
       \/ upload.reduced >= 0 /\ ~AboveThreshold(upload.reduced)
\* the boundaries create_concatenated_audio returned
ComputedBoundaries == <<audio.silence_start, audio.silence_end>>

\* C22: in the transition workflow no inpaint job is submitted when the
\* file is still above 35 MB after reduction; when it is at or below the
\* threshold, originally or after reduction, exactly one inpaint job is
\* submitted and its sections are the boundaries create_concatenated_audio
\* computed.
C22_SubmitOnlyWithinSizeLimit ==
    script = "transition" =>
        /\ Calls("submit", "song") # {} => FitsThreshold
        /\ StillTooLarge =>
               /\ Calls("submit", "song") = {}
               /\ pc # "submit"
               /\ ret["song"] = "None"
        /\ FitsThreshold =>
               \/ pc = "submit" /\ Calls("submit", "song") = {}
               \/ /\ pc # "submit"
                  /\ Count("submit", "song") = 1
                  /\ \A i \in Calls("submit", "song") :
                         trace[i].sent = ComputedBoundaries

\* C22 witness: the concatenated file was above the threshold, the reduced
\* copy is exactly 35 MB, and the one inpaint job carried the boundaries
C22_Witness ==
    /\ script = "transition"
    /\ pc = "done"
    /\ audio.made
    /\ AboveThreshold(upload.size)
    /\ upload.reduced = SizeLimitMB * 1024 * 1024
    /\ Count("submit", "song") = 1
    /\ \A i \in Calls("submit", "song") :
           trace[i].sent = ComputedBoundaries
    /\ ret["song"] = "ok"

====
